---- MODULE Spec2Model ----
(***************************************************************************)
(* GitRate: the browser-side profile store (services/storage.js) and the   *)
(* value it keeps under STORAGE_KEY in localStorage; the SavedProfiles and *)
(* CompareView components; the rating client (services/api.js); the search *)
(* form (SearchBar) and the tabbed App that ties them together.            *)
(*                                                                         *)
(* Sequences are 1-based here and 0-based in the source: findIndex gives 0 *)
(* where the source gives -1, and i+1 where the source gives i.            *)
(***************************************************************************)
EXTENDS Integers, Sequences, FiniteSets, TLC

\* ------------------------------------------------------------------ bounds
NumNames == 11      \* ordinary usernames are 1..NumNames
MaxTime == 1        \* the clock runs over 0..MaxTime
MaxExtra == 2       \* calls that are not "save the next new user"
MaxFaultyOps == 2   \* calls made on a medium that may fail or be corrupt

\* ------------------------------------------------------- program constants
MaxProfiles == 10   \* "limit to 10 profiles"
NoName == 0         \* a result whose profile.username is '' or absent (falsy)
Unknown == NumNames + 1   \* the literal username 'unknown'

Names == 1..NumNames
AllNames == Names \cup {NoName, Unknown}
Scores == {60, 85}
FirstScore == CHOOSE s \in Scores : \A r \in Scores : s <= r

\* A result that carries no savedAt of its own.
NoTime == -1
\* What a caller's result may carry as savedAt: nothing, or a time of its own.
CallerSavedAt == {NoTime, MaxTime + 1}

\* The rating results the API hands to the store (username, content).
ProfileData == [username : AllNames, final_score : Scores, savedAt : {NoTime}]
NoProfile == [username |-> NoName, final_score |-> FirstScore, savedAt |-> NoTime]

\* ------------------------------------------------------ the storage medium
\* What localStorage holds under STORAGE_KEY:
\*   missing    getItem returns null
\*   empty      the empty string
\*   array      the JSON text of an array of saved records (items)
\*   malformed  text JSON.parse rejects
\*   nonarray   valid JSON that is not an array ({"a":1}, 5, "x", null)
Kinds == {"missing", "empty", "array", "malformed", "nonarray"}
Raw(kind, items) == [kind |-> kind, items |-> items]
MissingItem == Raw("missing", <<>>)

\* JSON.stringify of an array of records.
JSONstringify(profiles) == Raw("array", profiles)

\* JSON.parse: throws on malformed text, gives back the array it was written
\* from, or a value that is no array.
JSONparse(data) ==
    CASE data.kind = "array"     -> [threw |-> FALSE, isArray |-> TRUE,  items |-> data.items]
      [] data.kind = "nonarray"  -> [threw |-> FALSE, isArray |-> FALSE, items |-> <<>>]
      [] OTHER                   -> [threw |-> TRUE,  isArray |-> FALSE, items |-> <<>>]

\* `data ?` : null and '' are falsy.
Truthy(data) == data.kind \notin {"missing", "empty"}

EmptyList == [isArray |-> TRUE, items |-> <<>>]

\* storage.getSavedProfiles; readFails: localStorage.getItem throws.
getSavedProfiles(store, readFails) ==
    IF readFails THEN EmptyList
    ELSE IF ~Truthy(store) THEN EmptyList
    ELSE LET parsed == JSONparse(store) IN
         IF parsed.threw THEN EmptyList
         ELSE [isArray |-> parsed.isArray, items |-> parsed.items]

\* ------------------------------------------------------------ saveProfile
\* const username = profileData.profile?.username || 'unknown'
UsernameOf(profileData) ==
    IF profileData.username = NoName THEN Unknown ELSE profileData.username

\* profiles.findIndex(p => p.profile?.username === username); 0 when absent.
findIndex(profiles, username) ==
    IF \E i \in 1..Len(profiles) : profiles[i].username = username
    THEN CHOOSE i \in 1..Len(profiles) :
            /\ profiles[i].username = username
            /\ \A j \in 1..(i - 1) : profiles[j].username # username
    ELSE 0

\* Mutant of MakeSaved: the spread written last, the caller's savedAt wins.
MakeSavedSpreadLast(profileData, t) ==
    [username |-> profileData.username,
     final_score |-> profileData.final_score,
     savedAt |-> IF profileData.savedAt # NoTime THEN profileData.savedAt ELSE t]

\* { ...profileData, savedAt: new Date().toISOString() }
MakeSaved(profileData, t) ==
    [username |-> profileData.username,
     final_score |-> profileData.final_score,
     savedAt |-> t]

\* profiles[existingIndex] = savedProfile
ReplaceAt(profiles, i, savedProfile) == [profiles EXCEPT ![i] = savedProfile]

\* Mutant of Unshift: push, the new entry goes last.
UnshiftAsPush(profiles, savedProfile) == Append(profiles, savedProfile)

\* profiles.unshift(savedProfile)
Unshift(profiles, savedProfile) == <<savedProfile>> \o profiles

\* Mutant of PopIfOver: the limit compared one too high.
PopIfOverByTwo(profiles) ==
    IF Len(profiles) > MaxProfiles + 1
    THEN SubSeq(profiles, 1, Len(profiles) - 1)
    ELSE profiles

\* Mutant of PopIfOver: shift instead of pop, the first entry goes.
ShiftIfOver(profiles) ==
    IF Len(profiles) > MaxProfiles THEN Tail(profiles) ELSE profiles

\* if (profiles.length > 10) profiles.pop()
PopIfOver(profiles) ==
    IF Len(profiles) > MaxProfiles
    THEN SubSeq(profiles, 1, Len(profiles) - 1)
    ELSE profiles

\* The array saveProfile writes back, given the array it read.
Updated(profiles, profileData, t) ==
    LET existingIndex == findIndex(profiles, UsernameOf(profileData))
        savedProfile == MakeSaved(profileData, t)
    IN IF existingIndex >= 1
       THEN ReplaceAt(profiles, existingIndex, savedProfile)
       ELSE PopIfOver(Unshift(profiles, savedProfile))

\* Mutant of saveProfile: the catch returns true as well.
saveProfileAlwaysTrue(store, profileData, t, readFails, writeFails) ==
    LET list == getSavedProfiles(store, readFails) IN
    IF ~list.isArray \/ writeFails
    THEN [ret |-> TRUE, store |-> store]
    ELSE [ret |-> TRUE,
          store |-> JSONstringify(Updated(list.items, profileData, t))]

\* storage.saveProfile: [ret, store]. A value read that is no array makes
\* findIndex throw inside the try; writeFails: localStorage.setItem throws.
saveProfile(store, profileData, t, readFails, writeFails) ==
    LET profiles == getSavedProfiles(store, readFails) IN
    IF ~profiles.isArray \/ writeFails
    THEN [ret |-> FALSE, store |-> store]
    ELSE [ret |-> TRUE,
          store |-> JSONstringify(Updated(profiles.items, profileData, t))]

\* ---------------------------------------------------------- removeProfile
\* Mutant of Filtered: === for !==, the named entries are the ones kept.
FilteredKeepsNamed(profiles, username) ==
    SelectSeq(profiles, LAMBDA p : p.username = username)

\* profiles.filter(p => p.profile?.username !== username)
Filtered(profiles, username) ==
    SelectSeq(profiles, LAMBDA p : p.username # username)

\* Mutant of removeProfile: the array is cut at the entry found.
removeProfileCutting(store, username, readFails, writeFails) ==
    LET list == getSavedProfiles(store, readFails)
        i == findIndex(list.items, username)
    IN IF ~list.isArray \/ writeFails
       THEN [ret |-> FALSE, store |-> store]
       ELSE [ret |-> TRUE,
             store |-> JSONstringify(IF i >= 1 THEN SubSeq(list.items, 1, i - 1)
                                     ELSE list.items)]

removeProfile(store, username, readFails, writeFails) ==
    LET profiles == getSavedProfiles(store, readFails) IN
    IF ~profiles.isArray \/ writeFails
    THEN [ret |-> FALSE, store |-> store]
    ELSE [ret |-> TRUE,
          store |-> JSONstringify(Filtered(profiles.items, username))]

\* --------------------------------------------------------- isProfileSaved
\* profiles.some(...) with no try around it: a value that is no array throws.
isProfileSaved(store, username, readFails) ==
    LET profiles == getSavedProfiles(store, readFails) IN
    IF ~profiles.isArray
    THEN [threw |-> TRUE, val |-> FALSE]
    ELSE [threw |-> FALSE,
          val |-> \E i \in 1..Len(profiles.items) :
                      profiles.items[i].username = username]

\* --------------------------------------------------------------- clearAll
\* Mutant of clearAll: another key is removed, the stored value stays.
clearAllOtherKey(store, writeFails) ==
    IF writeFails
    THEN [ret |-> FALSE, store |-> store]
    ELSE [ret |-> TRUE, store |-> store]

\* localStorage.removeItem(STORAGE_KEY); writeFails: removeItem throws.
clearAll(store, writeFails) ==
    IF writeFails
    THEN [ret |-> FALSE, store |-> store]
    ELSE [ret |-> TRUE, store |-> MissingItem]

\* ------------------------------------------------------------------ state
VARIABLES
    localStorage,   \* the value under STORAGE_KEY
    now,            \* the clock new Date() reads
    last,           \* the last store call: operation, arguments, result, store before
    trace,          \* usernames passed to saveProfile so far, in call order
    onlySaves,      \* no removeProfile or clearAll call so far
    replaced,       \* a saveProfile call replaced an entry in place since the last clearAll
    nextNew,        \* the lowest ordinary username never saved
    extra,          \* calls so far other than "save the next new user"
    faulty          \* calls so far on the possibly failing medium

VARIABLES
    savedProfiles,  \* App's savedProfiles state, the profiles prop of both views
    activeTab,      \* App's activeTab: "search", "saved" or "compare"
    filter,         \* SavedProfiles' filter state
    sortBy,         \* SavedProfiles' sortBy state
    sortOrder,      \* SavedProfiles' sortOrder state
    rendered,       \* what the mounted view computed at its last render
    request         \* the api.rateDeveloper call under way or settled last

VARIABLES
    data,           \* App's data state: null or the rating shown
    loading,        \* App's loading state
    error,          \* App's error state: null or the message shown
    pending,        \* the rateDeveloper calls of handleSearch not yet settled
    crashed,        \* a render of App threw: nothing is shown any more
    handler,        \* the App handler that ran last, and what it was given
    typed,          \* SearchBar's username state, the text in the input
    searched        \* the last call of onSearch made by SearchBar

storeVars == <<localStorage, now, last, trace, onlySaves, replaced, nextNew, extra, faulty>>
uiVars == <<savedProfiles, activeTab, filter, sortBy, sortOrder, rendered>>
appVars == <<data, loading, error, pending, crashed, handler, typed, searched>>
vars == <<storeVars, uiVars, request, appVars>>

Call(op, pd, u, ret, before, out, readFails, writeFails) ==
    [op |-> op, pd |-> pd, u |-> u, ret |-> ret, before |-> before, out |-> out,
     readFails |-> readFails, writeFails |-> writeFails, at |-> now,
     threw |-> FALSE]

NoCall == Call("none", NoProfile, NoName, TRUE, MissingItem, EmptyList, FALSE, FALSE)

\* The list a reliable read of the store gives.
List(store) == getSavedProfiles(store, FALSE).items

NothingRendered ==
    [kind |-> "none", filtered |-> <<>>, shown |-> <<>>, ranked |-> <<>>, bars |-> <<>>]
NoRequest == [state |-> "idle"]

\* useState(null): no rating, no message; a rating shown is Shown(profile)
NullData == [isNull |-> TRUE, value |-> NoProfile]
Shown(profile) == [isNull |-> FALSE, value |-> profile]
NullError == "null"
\* ret: what the store call of the handler returned, which App ignores
Handled(op, pd, readFails, writeFails, superseded, ret) ==
    [op |-> op, pd |-> pd, readFails |-> readFails, writeFails |-> writeFails,
     superseded |-> superseded, ret |-> ret]
NoHandler == Handled("none", NoProfile, FALSE, FALSE, FALSE, TRUE)
NotSearched == [called |-> FALSE, input |-> <<>>, username |-> <<>>]

\* App and SearchBar as constructed.
App0 ==
    /\ data = NullData
    /\ loading = FALSE
    /\ error = NullError
    /\ pending = <<>>
    /\ crashed = FALSE
    /\ handler = NoHandler
    /\ typed = <<>>
    /\ searched = NotSearched

\* App as constructed, no view mounted, no request made.
Ui0 ==
    /\ savedProfiles = <<>>
    /\ activeTab = "search"
    /\ filter = "all"
    /\ sortBy = "date"
    /\ sortOrder = "desc"
    /\ rendered = NothingRendered
    /\ request = NoRequest
    /\ App0

Ghosts0 ==
    /\ Ui0
    /\ now = 0
    /\ last = NoCall
    /\ trace = <<>>
    /\ onlySaves = TRUE
    /\ replaced = FALSE
    /\ nextNew = 1
    /\ extra = 0
    /\ faulty = 0

\* The store of a browser that never ran the application.
Init ==
    /\ localStorage = MissingItem
    /\ Ghosts0

\* Time passes.
Tick ==
    /\ now < MaxTime
    /\ now' = now + 1
    /\ UNCHANGED <<localStorage, last, trace, onlySaves, replaced, nextNew, extra, faulty>>
    /\ UNCHANGED <<uiVars, request, appVars>>

\* ---- the calls, whatever the medium does
SaveCall(pd, readFails, writeFails) ==
    /\ LET r == saveProfile(localStorage, pd, now, readFails, writeFails)
           profiles == getSavedProfiles(localStorage, readFails)
       IN /\ localStorage' = r.store
          /\ last' = Call("save", pd, pd.username, r.ret, localStorage, EmptyList,
                          readFails, writeFails)
          /\ replaced' = (replaced \/
                            (r.ret /\ findIndex(profiles.items, UsernameOf(pd)) >= 1))
    /\ trace' = Append(trace, pd.username)
    /\ UNCHANGED <<now, onlySaves>>

RemoveCall(u, readFails, writeFails) ==
    /\ LET r == removeProfile(localStorage, u, readFails, writeFails)
       IN /\ localStorage' = r.store
          /\ last' = Call("remove", NoProfile, u, r.ret, localStorage, EmptyList,
                          readFails, writeFails)
    /\ onlySaves' = FALSE
    /\ UNCHANGED <<now, trace, replaced>>

ClearCall(writeFails) ==
    /\ LET r == clearAll(localStorage, writeFails)
       IN /\ localStorage' = r.store
          /\ last' = Call("clear", NoProfile, NoName, r.ret, localStorage, EmptyList,
                          FALSE, writeFails)
          /\ replaced' = (replaced /\ ~r.ret)
    /\ onlySaves' = FALSE
    /\ UNCHANGED <<now, trace>>

\* getSavedProfiles called by the application; its result is kept in last.out.
ListCall(readFails) ==
    /\ last' = Call("list", NoProfile, NoName, TRUE, localStorage,
                    getSavedProfiles(localStorage, readFails), readFails, FALSE)
    /\ UNCHANGED <<localStorage, now, trace, onlySaves, replaced>>

\* isProfileSaved called by the application; an exception it lets through is
\* kept in last.threw.
IsSavedCall(u, readFails) ==
    /\ LET r == isProfileSaved(localStorage, u, readFails)
       IN last' = [Call("isSaved", NoProfile, u, r.val, localStorage, EmptyList,
                        readFails, FALSE) EXCEPT !.threw = r.threw]
    /\ UNCHANGED <<localStorage, now, trace, onlySaves, replaced>>

\* ---- Spec: a medium that works, a store that starts empty
\* A save of the next never-saved ordinary user with the first score is free;
\* any other call counts against MaxExtra.
IsPlain(pd) ==
    /\ pd.username = nextNew
    /\ pd.final_score = FirstScore

SaveProfile(pd) ==
    /\ pd.username \in Names => pd.username <= nextNew
    /\ IsPlain(pd) \/ extra < MaxExtra
    /\ SaveCall(pd, FALSE, FALSE)
    /\ nextNew' = IF pd.username = nextNew THEN nextNew + 1 ELSE nextNew
    /\ extra' = IF IsPlain(pd) THEN extra ELSE extra + 1
    /\ UNCHANGED <<faulty, uiVars, request, appVars>>

RemoveProfile(u) ==
    /\ extra < MaxExtra
    /\ RemoveCall(u, FALSE, FALSE)
    /\ extra' = extra + 1
    /\ UNCHANGED <<nextNew, faulty, uiVars, request, appVars>>

ClearAll ==
    /\ extra < MaxExtra
    /\ ClearCall(FALSE)
    /\ extra' = extra + 1
    /\ UNCHANGED <<nextNew, faulty, uiVars, request, appVars>>

Next ==
    \/ Tick
    \/ \E pd \in ProfileData : SaveProfile(pd)
    \/ \E u \in AllNames : RemoveProfile(u)
    \/ ClearAll

Spec == Init /\ [][Next]_vars

\* ---- SpecMedium: whatever the browser holds under the key, and a medium
\* whose reads and writes may throw
MediumNames == {1, NoName, Unknown}
MediumData == [username : MediumNames, final_score : Scores, savedAt : CallerSavedAt]

InitialItems ==
    {Raw(k, <<>>) : k \in Kinds} \cup
    {Raw("array", <<MakeSaved(pd, 0)>>) : pd \in MediumData}

InitMedium ==
    /\ localStorage \in InitialItems
    /\ Ghosts0

MediumStep ==
    /\ faulty < MaxFaultyOps
    /\ faulty' = faulty + 1
    /\ UNCHANGED <<nextNew, extra, uiVars, request, appVars>>

MediumList(readFails) == MediumStep /\ ListCall(readFails)
MediumSave(pd, readFails, writeFails) == MediumStep /\ SaveCall(pd, readFails, writeFails)
MediumRemove(u, readFails, writeFails) == MediumStep /\ RemoveCall(u, readFails, writeFails)
MediumClear(writeFails) == MediumStep /\ ClearCall(writeFails)
MediumIsSaved(u, readFails) == MediumStep /\ IsSavedCall(u, readFails)

NextMedium ==
    \/ Tick
    \/ \E rf \in BOOLEAN : MediumList(rf)
    \/ \E pd \in MediumData, rf \in BOOLEAN, wf \in BOOLEAN : MediumSave(pd, rf, wf)
    \/ \E u \in MediumNames, rf \in BOOLEAN, wf \in BOOLEAN : MediumRemove(u, rf, wf)
    \/ \E wf \in BOOLEAN : MediumClear(wf)
    \/ \E u \in MediumNames, rf \in BOOLEAN : MediumIsSaved(u, rf)

SpecMedium == InitMedium /\ [][NextMedium]_vars

\* -------------------------------------------- SavedProfiles and CompareView
\* The rated profiles the two views are given. A username is the entry's
\* position in the list (usernames are distinct in a stored list), the display
\* name is absent, and savedAt falls from the front to the back as in a list
\* built by saves alone. The tier and the final score vary freely; the four
\* subscores follow from them, each in its own way, so that no two metrics and
\* no metric and the ranking order the profiles alike.
MaxViewLen == 3
Tiers == {"Elite", "Advanced"}
FilterOptions == {"all"} \cup Tiers
SortOptions == {"date", "score", "name"}
ViewScores == {60, 75, 90}
ContributionOf(tier) == IF tier = "Elite" THEN 70 ELSE 40
Metrics == {"contribution_score", "pr_quality_score", "impact_score", "code_quality_score"}

ViewProfile(i, n, c) ==
    [username |-> i, name |-> NoName, savedAt |-> n - i,
     tier |-> c.tier, final_score |-> c.final_score,
     contribution_score |-> ContributionOf(c.tier),
     pr_quality_score |-> c.final_score,
     impact_score |-> 100 - ContributionOf(c.tier),
     code_quality_score |-> 50]

ViewChoices == [tier : Tiers, final_score : ViewScores]

ViewLists ==
    UNION { { [i \in 1..n |-> ViewProfile(i, n, cs[i])] : cs \in [1..n -> ViewChoices] }
            : n \in 0..MaxViewLen }

\* Array.prototype.sort: stable, ordering by the sign of the compare function,
\* given here as cmp[i, j], its result on the elements at i and j. An element
\* goes after every element the function puts before it and after the equal
\* ones that came before it in the input.
Sort(seq, cmp) ==
    LET n == Len(seq)
        pos(i) == 1 + Cardinality({ j \in 1..n : cmp[j, i] < 0 })
                    + Cardinality({ j \in 1..(i - 1) : cmp[j, i] = 0 })
    IN  [k \in 1..n |-> seq[CHOOSE i \in 1..n : pos(i) = k]]

\* filter === 'all' ? profiles : profiles.filter(p => p.tier === filter)
FilterByTierKeepingOthers(profiles_, f) ==
    IF f = "all" THEN profiles_
    ELSE SelectSeq(profiles_, LAMBDA p : p.tier # f)

FilterByTier(profiles_, f) ==
    IF f = "all" THEN profiles_
    ELSE SelectSeq(profiles_, LAMBDA p : p.tier = f)

\* String.prototype.toLowerCase on the modelled strings: an odd code is the
\* capitalised spelling of the even code below it, '' (NoName) is 0.
toLowerCase(str) == str - (str % 2)

\* a.profile?.name || a.profile?.username || ''
NameKey(p) ==
    toLowerCase(IF p.name # NoName THEN p.name
                ELSE IF p.username # NoName THEN p.username ELSE NoName)

\* new Date(a.savedAt || 0): a missing savedAt is the epoch
DateOf(p) == IF p.savedAt = NoTime THEN 0 ELSE p.savedAt

\* the switch on sortBy
Comparison(a, b, k) ==
    CASE k = "score" -> a.final_score - b.final_score
      [] k = "name"  -> NameKey(a) - NameKey(b)
      [] OTHER       -> DateOf(a) - DateOf(b)

\* sortOrder === 'desc' ? -comparison : comparison
SignedComparisonIgnoringOrder(a, b, k, o) == Comparison(a, b, k)

SignedComparison(a, b, k, o) ==
    IF o = "desc" THEN 0 - Comparison(a, b, k) ELSE Comparison(a, b, k)

tierCounts(profiles_) ==
    [t \in FilterOptions |->
        IF t = "all" THEN Len(profiles_) ELSE Len(FilterByTier(profiles_, t))]

\* One render of SavedProfiles: what it computes (view) and the array its
\* caller passed, as that array is afterwards (profiles).
RenderSavedProfilesInPlace(profiles_, f, k, o) ==
    IF Len(profiles_) = 0
    THEN [view |-> [NothingRendered EXCEPT !.kind = "empty"], profiles |-> profiles_]
    ELSE LET filteredProfiles == FilterByTier(profiles_, f)
             sortedProfiles ==
                 Sort(filteredProfiles,
                      [i, j \in 1..Len(filteredProfiles) |->
                          SignedComparison(filteredProfiles[i], filteredProfiles[j], k, o)])
         IN  [view |-> [NothingRendered EXCEPT !.kind = "list",
                                               !.filtered = filteredProfiles,
                                               !.shown = sortedProfiles],
              profiles |-> IF f = "all" THEN sortedProfiles ELSE profiles_]

RenderSavedProfiles(profiles_, f, k, o) ==
    IF Len(profiles_) = 0
    THEN [view |-> [NothingRendered EXCEPT !.kind = "empty"], profiles |-> profiles_]
    ELSE LET filteredProfiles == FilterByTier(profiles_, f)
             copy == [i \in 1..Len(filteredProfiles) |-> filteredProfiles[i]]
             sortedProfiles ==
                 Sort(copy, [i, j \in 1..Len(copy) |->
                                SignedComparison(copy[i], copy[j], k, o)])
         IN  [view |-> [NothingRendered EXCEPT !.kind = "list",
                                               !.filtered = filteredProfiles,
                                               !.shown = sortedProfiles],
              profiles |-> profiles_]

Range(f) == { f[x] : x \in DOMAIN f }

\* Math.max(...values)
MathMax(values) == CHOOSE m \in Range(values) : \A v \in Range(values) : v <= m

\* StatBar: one bar per value, in the order given; bold where value === max
StatBarBoldMin(values) ==
    LET max == CHOOSE m \in Range(values) : \A v \in Range(values) : m <= v
    IN  [values |-> values, max |-> max,
         bold |-> [i \in 1..Len(values) |-> values[i] = max]]

StatBar(values) ==
    LET max == MathMax(values)
    IN  [values |-> values, max |-> max,
         bold |-> [i \in 1..Len(values) |-> values[i] = max]]

\* (a, b) => b.final_score - a.final_score
RankComparisonAscending(a, b) == a.final_score - b.final_score

RankComparison(a, b) == b.final_score - a.final_score

\* profiles.map(p => p.<metric>)
ValuesOf(profiles_, metric) == [i \in 1..Len(profiles_) |-> profiles_[i][metric]]

\* !profiles || profiles.length < 2
TooFewAllowingOne(profiles_) == Len(profiles_) < 1

TooFew(profiles_) == Len(profiles_) < 2

\* One render of CompareView, as RenderSavedProfiles above.
RenderCompareView(profiles_) ==
    IF TooFew(profiles_)
    THEN [view |-> [NothingRendered EXCEPT !.kind = "needTwo"], profiles |-> profiles_]
    ELSE LET copy == [i \in 1..Len(profiles_) |-> profiles_[i]]
             ranked == Sort(copy, [i, j \in 1..Len(copy) |->
                                      RankComparison(copy[i], copy[j])])
         IN  [view |-> [NothingRendered EXCEPT
                           !.kind = "compare",
                           !.ranked = ranked,
                           !.bars = [m \in Metrics |-> StatBar(ValuesOf(profiles_, m))]],
              profiles |-> profiles_]

\* ---- SpecView: the two views mounted on any list of rated profiles
\* The next render of the mounted view, with SavedProfiles' state as given.
Rerender(tab, f, k, o) ==
    LET r == IF tab = "compare" THEN RenderCompareView(savedProfiles)
             ELSE RenderSavedProfiles(savedProfiles, f, k, o)
    IN  /\ rendered' = r.view
        /\ savedProfiles' = r.profiles

InitView ==
    /\ localStorage = MissingItem
    /\ now = 0
    /\ last = NoCall
    /\ trace = <<>>
    /\ onlySaves = TRUE
    /\ replaced = FALSE
    /\ nextNew = 1
    /\ extra = 0
    /\ faulty = 0
    /\ request = NoRequest
    /\ App0
    /\ activeTab \in {"saved", "compare"}
    /\ filter = "all"
    /\ sortBy = "date"
    /\ sortOrder = "desc"
    /\ \E given \in ViewLists :
          LET r == IF activeTab = "compare" THEN RenderCompareView(given)
                   ELSE RenderSavedProfiles(given, "all", "date", "desc")
          IN  /\ savedProfiles = r.profiles
              /\ rendered = r.view

\* the filter buttons, disabled when no profile has the tier
SetFilter(t) ==
    /\ activeTab = "saved"
    /\ rendered.kind = "list"
    /\ tierCounts(savedProfiles)[t] # 0
    /\ filter' = t
    /\ Rerender(activeTab, t, sortBy, sortOrder)
    /\ UNCHANGED <<storeVars, appVars, request, activeTab, sortBy, sortOrder>>

\* the sort select
SetSortBy(k) ==
    /\ activeTab = "saved"
    /\ rendered.kind = "list"
    /\ sortBy' = k
    /\ Rerender(activeTab, filter, k, sortOrder)
    /\ UNCHANGED <<storeVars, appVars, request, activeTab, filter, sortOrder>>

toggleSortOrder ==
    /\ activeTab = "saved"
    /\ rendered.kind = "list"
    /\ sortOrder' = IF sortOrder = "asc" THEN "desc" ELSE "asc"
    /\ Rerender(activeTab, filter, sortBy, sortOrder')
    /\ UNCHANGED <<storeVars, appVars, request, activeTab, filter, sortBy>>

\* Compare All, or the Compare tab: offered with two profiles or more.
\* SavedProfiles unmounts and its state starts afresh at its next mount.
onCompare ==
    /\ activeTab = "saved"
    /\ Len(savedProfiles) >= 2
    /\ activeTab' = "compare"
    /\ filter' = "all"
    /\ sortBy' = "date"
    /\ sortOrder' = "desc"
    /\ Rerender("compare", "all", "date", "desc")
    /\ UNCHANGED <<storeVars, appVars, request>>

\* the back button, Go Back, or the Saved tab
onBack ==
    /\ activeTab = "compare"
    /\ activeTab' = "saved"
    /\ Rerender("saved", filter, sortBy, sortOrder)
    /\ UNCHANGED <<storeVars, appVars, request, filter, sortBy, sortOrder>>

NextView ==
    \/ \E t \in FilterOptions : SetFilter(t)
    \/ \E k \in SortOptions : SetSortBy(k)
    \/ toggleSortOrder
    \/ onCompare
    \/ onBack

SpecView == InitView /\ [][NextView]_vars

\* ------------------------------------------------------- api.rateDeveloper
\* What fetch gives back: a response with a status and a body, whatever the
\* status, or a rejection when the request could not be completed.
Statuses == {200, 404, 500}
NoStatus == 0                   \* an error object without a status property
Bodies(u) ==
    { [kind |-> "json", value |-> pd] : pd \in { d \in ProfileData : d.username = u } }
        \cup { [kind |-> "text", value |-> NoProfile] }
FetchFailed == [kind |-> "rejected", status |-> NoStatus,
                body |-> [kind |-> "text", value |-> NoProfile]]
Fetched(u) ==
    { [kind |-> "response", status |-> st, body |-> b] : st \in Statuses, b \in Bodies(u) }
        \cup { FetchFailed }

\* Response.ok: the status is in the range 200-299
ok(response) == response.status >= 200 /\ response.status <= 299

NoError == [name |-> "", message |-> "", status |-> NoStatus]
Resolved(value) == [settled |-> "resolved", value |-> value, error |-> NoError]
Rejected(name, message) ==
    [settled |-> "rejected", value |-> NoProfile,
     error |-> [name |-> name, message |-> message, status |-> NoStatus]]

\* The promise rateDeveloper returns, once fetch has given `fetched` back.
rateDeveloper(fetched) ==
    IF fetched.kind = "rejected"
    THEN Rejected("TypeError", "Failed to fetch")          \* the await rethrows
    ELSE IF ~ok(fetched)
    THEN Rejected("Error", "Failed to rate developer")
    ELSE IF fetched.body.kind = "json"
    THEN Resolved(fetched.body.value)                      \* response.json()
    ELSE Rejected("SyntaxError", "Unexpected token")       \* response.json() rejects

\* ---- SpecApi: calls of rateDeveloper, one at a time, against any server
RateDeveloper(u) ==
    /\ request.state \in {"idle", "settled"}
    /\ request' = [state |-> "pending", username |-> u]
    /\ UNCHANGED <<storeVars, uiVars, appVars>>

\* the server answers
Respond ==
    /\ request.state = "pending"
    /\ \E f \in Fetched(request.username) \ {FetchFailed} :
          request' = [state |-> "settled", username |-> request.username,
                      fetched |-> f, outcome |-> rateDeveloper(f)]
    /\ UNCHANGED <<storeVars, uiVars, appVars>>

\* DNS, timeout, connection: no answer comes
NetworkFails ==
    /\ request.state = "pending"
    /\ request' = [state |-> "settled", username |-> request.username,
                   fetched |-> FetchFailed, outcome |-> rateDeveloper(FetchFailed)]
    /\ UNCHANGED <<storeVars, uiVars, appVars>>

NextApi ==
    \/ \E u \in AllNames : RateDeveloper(u)
    \/ Respond
    \/ NetworkFails

SpecApi == Init /\ [][NextApi]_vars

\* -------------------------------------------------------------- SearchBar
\* Text is a sequence of characters: '@', a blank, a letter.
MaxInputLen == 3
Chars == {"@", " ", "a"}
Inputs == UNION { [1..n -> Chars] : n \in 0..MaxInputLen }

\* String.prototype.trim: the blanks at both ends go
RECURSIVE trimStart(_)
trimStart(text) ==
    IF text # <<>> /\ Head(text) = " " THEN trimStart(Tail(text)) ELSE text
RECURSIVE trimEnd(_)
trimEnd(text) ==
    IF text # <<>> /\ text[Len(text)] = " "
    THEN trimEnd(SubSeq(text, 1, Len(text) - 1))
    ELSE text
trim(text) == trimEnd(trimStart(text))

\* username.replace(/^@/, '')
ReplaceLeadingAt(text) ==
    IF text # <<>> /\ Head(text) = "@" THEN Tail(text) ELSE text

\* handleSubmit: the call of onSearch it makes, if it makes one
handleSubmit(text) ==
    IF trim(text) # <<>>
    THEN [called |-> TRUE, input |-> text, username |-> ReplaceLeadingAt(text)]
    ELSE NotSearched

\* ---- SpecSearchBar: the form, typed into and submitted
\* onChange of the input, which is disabled while isLoading
setUsername(text) ==
    /\ ~loading
    /\ typed' = text
    /\ UNCHANGED <<storeVars, uiVars, request>>
    /\ UNCHANGED <<data, loading, error, pending, crashed, handler, searched>>

\* onSubmit of the form; handleSubmit itself looks at the text
SubmitForm ==
    /\ ~loading
    /\ LET call == handleSubmit(typed)
       IN  searched' = IF call.called THEN call ELSE searched
    /\ UNCHANGED <<storeVars, uiVars, request>>
    /\ UNCHANGED <<data, loading, error, pending, crashed, handler, typed>>

NextSearchBar ==
    \/ \E text \in Inputs : setUsername(text)
    \/ SubmitForm

SpecSearchBar == Init /\ [][NextSearchBar]_vars

\* -------------------------------------------------------------------- App
MaxAppNames == 2    \* the developers searched for are 1..MaxAppNames
MaxPending == 2     \* requests in flight at once, were the form to allow them
AppNames == 1..MaxAppNames
ErrorMessage == "Failed to generate rating. Please check the username and try again."

\* App's state as a handler finds it and leaves it. savedProfiles is whatever
\* getSavedProfiles returned: an array (isArray, items) or the parsed value
\* that is no array, taken to be an object such as {"a":1}, with no length.
AppState(d, l, e, store, sp) ==
    [data |-> d, loading |-> l, error |-> e, localStorage |-> store, savedProfiles |-> sp]

\* handleSearch up to its await
handleSearchStart(st) ==
    [st EXCEPT !.loading = TRUE, !.error = NullError, !.data = NullData]

\* Mutant of handleSearchSettled: the list refreshed before the save.
handleSearchRefreshFirst(st, outcome, t, rf1, wf, rf2) ==
    IF outcome.settled = "resolved"
    THEN LET r == saveProfile(st.localStorage, outcome.value, t, rf1, wf)
         IN  [st EXCEPT !.data = Shown(outcome.value),
                        !.localStorage = r.store,
                        !.savedProfiles = getSavedProfiles(st.localStorage, rf2),
                        !.loading = FALSE]
    ELSE [st EXCEPT !.error = ErrorMessage, !.loading = FALSE]

\* Mutant of handleSearchSettled: no finally, a failure leaves loading set.
handleSearchNoFinally(st, outcome, t, rf1, wf, rf2) ==
    IF outcome.settled = "resolved"
    THEN LET r == saveProfile(st.localStorage, outcome.value, t, rf1, wf)
         IN  [st EXCEPT !.data = Shown(outcome.value),
                        !.localStorage = r.store,
                        !.savedProfiles = getSavedProfiles(r.store, rf2),
                        !.loading = FALSE]
    ELSE [st EXCEPT !.error = ErrorMessage]

\* handleSearch from its await on, the promise settled as `outcome`: the try
\* after the await, the catch, the finally. rf1, wf: the medium during
\* saveProfile; rf2: during getSavedProfiles.
handleSearchSettled(st, outcome, t, rf1, wf, rf2) ==
    IF outcome.settled = "resolved"
    THEN LET r == saveProfile(st.localStorage, outcome.value, t, rf1, wf)
         IN  [st EXCEPT !.data = Shown(outcome.value),
                        !.localStorage = r.store,
                        !.savedProfiles = getSavedProfiles(r.store, rf2),
                        !.loading = FALSE]
    ELSE [st EXCEPT !.error = ErrorMessage, !.loading = FALSE]

handleRemoveProfile(st, u, rf1, wf, rf2) ==
    LET r == removeProfile(st.localStorage, u, rf1, wf)
    IN  [st EXCEPT !.localStorage = r.store,
                   !.savedProfiles = getSavedProfiles(r.store, rf2)]

handleSelectProfile(st, profile) == [st EXCEPT !.data = Shown(profile)]

\* window.confirm answered with `confirmed`
handleClearAll(st, confirmed, wf) ==
    IF confirmed
    THEN [st EXCEPT !.localStorage = clearAll(st.localStorage, wf).store,
                    !.savedProfiles = EmptyList]
    ELSE st

\* savedProfiles.length < 2; undefined < 2 is false
LengthBelowTwo(sp) == sp.isArray /\ Len(sp.items) < 2

\* the tabs' disabled property
TabDisabled(tab, sp) == tab = "compare" /\ LengthBelowTwo(sp)

\* Mutant of SearchDisabled: the form stays enabled while loading.
SearchNeverDisabled(isLoading) == FALSE

\* disabled={isLoading} on SearchBar's input and button
SearchDisabled(isLoading) == isLoading

\* A render of App throws: isCurrentSaved lets isProfileSaved's exception
\* through, or the mounted view spreads a profiles prop that is no array.
RenderThrows(st, tab, readFails) ==
    \/ /\ ~st.data.isNull
       /\ st.data.value.username # NoName
       /\ isProfileSaved(st.localStorage, st.data.value.username, readFails).threw
    \/ /\ tab \in {"saved", "compare"}
       /\ ~st.savedProfiles.isArray

\* ---- SpecApp: the tabbed App, its user, its server and its medium
Current == AppState(data, loading, error, localStorage, savedProfiles)

\* The state a handler leaves is set, and App renders again.
Commit(st, tab, h, readFails) ==
    /\ data' = st.data
    /\ loading' = st.loading
    /\ error' = st.error
    /\ localStorage' = st.localStorage
    /\ savedProfiles' = st.savedProfiles
    /\ activeTab' = tab
    /\ handler' = h
    /\ crashed' = RenderThrows(st, tab, readFails)
    /\ UNCHANGED <<now, last, trace, onlySaves, replaced, nextNew, extra, faulty>>
    /\ UNCHANGED <<filter, sortBy, sortOrder, rendered, request, typed, searched>>

Superseded(requests) ==
    [i \in 1..Len(requests) |-> [requests[i] EXCEPT !.superseded = TRUE]]

Without(requests, i) ==
    SubSeq(requests, 1, i - 1) \o SubSeq(requests, i + 1, Len(requests))

\* The browser holds anything under the key; the mount effect has run.
InitApp ==
    /\ localStorage \in { Raw(k, <<>>) : k \in Kinds }
    /\ \E rf \in BOOLEAN :
          /\ savedProfiles = getSavedProfiles(localStorage, rf)
          /\ handler = Handled("mount", NoProfile, rf, FALSE, FALSE, TRUE)
    /\ activeTab = "search"
    /\ filter = "all"
    /\ sortBy = "date"
    /\ sortOrder = "desc"
    /\ rendered = NothingRendered
    /\ request = NoRequest
    /\ data = NullData
    /\ loading = FALSE
    /\ error = NullError
    /\ pending = <<>>
    /\ crashed = FALSE
    /\ typed = <<>>
    /\ searched = NotSearched
    /\ now = 0
    /\ last = NoCall
    /\ trace = <<>>
    /\ onlySaves = TRUE
    /\ replaced = FALSE
    /\ nextNew = 1
    /\ extra = 0
    /\ faulty = 0

\* SearchBar calls onSearch(u): handleSearch runs up to its await
StartSearch(u, rf) ==
    /\ ~crashed
    /\ activeTab = "search"
    /\ ~SearchDisabled(loading)
    /\ Len(pending) < MaxPending
    /\ pending' = Append(Superseded(pending), [username |-> u, superseded |-> FALSE])
    /\ Commit(handleSearchStart(Current), activeTab,
              Handled("search", NoProfile, rf, FALSE, FALSE, TRUE), rf)

\* fetch gives `fetched` back to the i-th request: handleSearch runs to its end
SettleSearch(i, fetched, rf1, wf, rf2) ==
    /\ ~crashed
    /\ LET outcome == rateDeveloper(fetched)
       IN  Commit(handleSearchSettled(Current, outcome, now, rf1, wf, rf2), activeTab,
                  Handled(IF outcome.settled = "resolved" THEN "searchDone"
                          ELSE "searchFailed",
                          outcome.value, rf2, wf, pending[i].superseded,
                          outcome.settled = "resolved" /\
                            saveProfile(localStorage, outcome.value, now, rf1, wf).ret),
                  rf2)
    /\ pending' = Without(pending, i)

SettleAny ==
    \E i \in 1..Len(pending) :
        \E fetched \in Fetched(pending[i].username), rf1, wf, rf2 \in BOOLEAN :
            SettleSearch(i, fetched, rf1, wf, rf2)

\* the remove button of the saved profile named u
RemoveSaved(u, rf1, wf, rf2) ==
    /\ ~crashed
    /\ activeTab = "saved"
    /\ \E i \in 1..Len(savedProfiles.items) : savedProfiles.items[i].username = u
    /\ Commit(handleRemoveProfile(Current, u, rf1, wf, rf2), activeTab,
              Handled("remove", NoProfile, rf2, wf, FALSE,
                      removeProfile(localStorage, u, rf1, wf).ret), rf2)
    /\ UNCHANGED pending

\* a click on the i-th saved profile
SelectSaved(i, rf) ==
    /\ ~crashed
    /\ activeTab = "saved"
    /\ i \in 1..Len(savedProfiles.items)
    /\ Commit(handleSelectProfile(Current, savedProfiles.items[i]), "search",
              Handled("select", savedProfiles.items[i], rf, FALSE, FALSE, TRUE), rf)
    /\ pending' = Superseded(pending)

\* the clear button, shown with the list
ClearSaved(confirmed, wf, rf) ==
    /\ ~crashed
    /\ activeTab = "saved"
    /\ Len(savedProfiles.items) > 0
    /\ Commit(handleClearAll(Current, confirmed, wf), activeTab,
              Handled(IF confirmed THEN "clear" ELSE "clearCancelled",
                      NoProfile, rf, wf, FALSE, clearAll(localStorage, wf).ret), rf)
    /\ UNCHANGED pending

\* a click on a tab that is not disabled, Compare All, or the way back
ClickTab(tab, rf) ==
    /\ ~crashed
    /\ tab # activeTab
    /\ ~TabDisabled(tab, savedProfiles)
    /\ Commit(Current, tab, Handled("tab", NoProfile, rf, FALSE, FALSE, TRUE), rf)
    /\ UNCHANGED pending

NextApp ==
    \/ \E u \in AppNames, rf \in BOOLEAN : StartSearch(u, rf)
    \/ SettleAny
    \/ \E u \in AppNames, rf1, wf, rf2 \in BOOLEAN : RemoveSaved(u, rf1, wf, rf2)
    \/ \E i \in 1..MaxProfiles, rf \in BOOLEAN : SelectSaved(i, rf)
    \/ \E confirmed, wf, rf \in BOOLEAN : ClearSaved(confirmed, wf, rf)
    \/ \E tab \in {"search", "saved", "compare"}, rf \in BOOLEAN : ClickTab(tab, rf)

SpecApp == InitApp /\ [][NextApp]_vars

\* Every request is answered or fails in the end.
FairSpecApp == SpecApp /\ WF_vars(SettleAny)

\* ======================================================= the claims
profiles == List(localStorage)          \* what getSavedProfiles returns now
before == List(last.before)             \* what it returned before the last call
saved == MakeSaved(last.pd, last.at)    \* the record the last save made

Has(list, username) == \E i \in 1..Len(list) : list[i].username = username
Distinct(seq) == \A i, j \in 1..Len(seq) : i # j => seq[i] # seq[j]
NonIncreasing(list) ==
    \A i, j \in 1..Len(list) : i < j => list[i].savedAt >= list[j].savedAt

\* The last call was a save that found no entry under its lookup username
\* and so added one.
Added == last.op = "save" /\ last.ret /\ ~Has(before, UsernameOf(last.pd))
\* ... to a store that was full: one entry had to go.
Evicting == Added /\ Len(before) = MaxProfiles

\* C1: after more than 10 saves of pairwise distinct usernames on a store
\* that started empty, the store holds the 10 most recently saved usernames,
\* most recent first.
C1_KeepsTenMostRecent ==
    (onlySaves /\ Distinct(trace) /\ Len(trace) > MaxProfiles) =>
        /\ Len(profiles) = MaxProfiles
        /\ \A i \in 1..MaxProfiles :
              profiles[i].username = trace[Len(trace) + 1 - i]

\* C2: the stored collection never holds two entries with the same username.
C2_OneEntryPerUsername ==
    \A i, j \in 1..Len(profiles) :
        i # j => profiles[i].username # profiles[j].username

\* C3: the stored collection never has more than 10 entries.
C3_AtMostTen == Len(profiles) <= MaxProfiles

\* C3 witness: a save on a full store has just evicted an entry.
C3_Witness == Evicting /\ Len(profiles) = MaxProfiles

\* C4: a save of a username already in the store replaces that entry where
\* it stands, with savedAt refreshed; the size and every other entry stay.
C4_ResaveInPlace ==
    (last.op = "save" /\ Has(before, last.pd.username)) =>
        /\ Len(profiles) = Len(before)
        /\ \A i \in 1..Len(before) :
              profiles[i] = IF before[i].username = last.pd.username
                            THEN saved ELSE before[i]

\* C5 (as claimed): the entry a save evicts has the oldest savedAt of the
\* entries held before the save.
C5_EvictsOldestSavedAt ==
    Evicting =>
        \E k \in 1..Len(before) :
            /\ profiles = <<saved>> \o SubSeq(before, 1, k - 1)
                                   \o SubSeq(before, k + 1, Len(before))
            /\ \A i \in 1..Len(before) : before[k].savedAt <= before[i].savedAt

\* C5 (amended): the entry a save evicts is the last of the stored sequence,
\* the other nine following the new entry in their order; it has the oldest
\* savedAt when no save since the last clearAll replaced an entry in place.
C5_EvictsLast ==
    Evicting =>
        /\ profiles = <<saved>> \o SubSeq(before, 1, MaxProfiles - 1)
        /\ (~replaced =>
               \A i \in 1..Len(before) :
                   before[MaxProfiles].savedAt <= before[i].savedAt)

\* C5 witness: an eviction after time has passed, no entry replaced in place.
C5_Witness ==
    /\ Evicting
    /\ ~replaced
    /\ before[1].savedAt > before[MaxProfiles].savedAt

\* C6 (as claimed): savedAt never increases along the returned sequence.
C6_SavedAtNonIncreasing == NonIncreasing(profiles)

\* C6 (amended): savedAt never increases along the returned sequence as long
\* as no save since the last clearAll replaced an entry in place.
C6_NonIncreasingUnlessReplaced == ~replaced => NonIncreasing(profiles)

\* C6 witness: entries saved at different times, none replaced in place.
C6_Witness ==
    /\ ~replaced
    /\ Len(profiles) >= 2
    /\ profiles[1].savedAt > profiles[Len(profiles)].savedAt

\* C7: isProfileSaved(u) is true right after saveProfile of a result with
\* username u and false right after removeProfile(u).
C7_SavedAfterSaveNotAfterRemove ==
    /\ last.op = "save" =>
          isProfileSaved(localStorage, last.pd.username, FALSE)
              = [threw |-> FALSE, val |-> TRUE]
    /\ last.op = "remove" =>
          isProfileSaved(localStorage, last.u, FALSE)
              = [threw |-> FALSE, val |-> FALSE]

\* C7 witness: a username that was saved has just been removed.
C7_Witness ==
    /\ last.op = "remove"
    /\ isProfileSaved(last.before, last.u, FALSE).val

\* How many of the first n entries of list carry username.
RECURSIVE CountIn(_, _, _)
CountIn(list, username, n) ==
    IF n = 0 THEN 0
    ELSE CountIn(list, username, n - 1)
            + (IF list[n].username = username THEN 1 ELSE 0)

\* C8: removeProfile(u) returns true and leaves exactly the entries with
\* another username, each moved up by the number of removed entries that
\* stood before it; with u absent the collection is unchanged.
C8_RemoveKeepsTheOthers ==
    last.op = "remove" =>
        /\ last.ret
        /\ ~Has(profiles, last.u)
        /\ Len(profiles) = Len(before) - CountIn(before, last.u, Len(before))
        /\ \A i \in 1..Len(before) :
              before[i].username # last.u =>
                  profiles[i - CountIn(before, last.u, i)] = before[i]
        /\ (~Has(before, last.u) => localStorage.items = last.before.items)

\* C8 witness: an entry was removed from between two others.
C8_Witness ==
    /\ last.op = "remove"
    /\ \E i \in 2..(Len(before) - 1) : before[i].username = last.u
    /\ Len(profiles) >= 2

\* C9: after clearAll on a non-empty store getSavedProfiles returns the empty
\* sequence and isProfileSaved is false for every username saved before.
C9_ClearEmpties ==
    (last.op = "clear" /\ Len(before) >= 1) =>
        /\ getSavedProfiles(localStorage, FALSE) = EmptyList
        /\ \A i \in 1..Len(before) :
              isProfileSaved(localStorage, before[i].username, FALSE)
                  = [threw |-> FALSE, val |-> FALSE]

\* C9 witness: several saved profiles have just been cleared.
C9_Witness == last.op = "clear" /\ Len(before) >= 2

\* C10: getSavedProfiles gives the empty sequence, without raising, whenever
\* the stored value is missing, unreadable or anything but a serialized array.
C10_ListNeverFails ==
    (last.op = "list" /\ (last.readFails \/ last.before.kind # "array")) =>
        last.out = EmptyList

\* C11: no store operation lets an exception through to its caller.
C11_NoCallThrows == ~last.threw

\* C12: saveProfile returns true exactly when it wrote the updated collection;
\* when the write fails it returns false and the stored value is as before.
C12_TrueIffWritten ==
    last.op = "save" =>
        /\ ~last.threw
        /\ last.writeFails => ~last.ret
        /\ ~last.ret => localStorage = last.before
        /\ last.ret =>
              /\ localStorage.kind = "array"
              /\ \E i \in 1..Len(profiles) : profiles[i] = saved

\* C12 witness: a save on a store holding profiles whose write failed.
C12_Witness ==
    /\ last.op = "save"
    /\ last.writeFails
    /\ ~last.readFails
    /\ Len(before) >= 1

\* C13: a successful save stamps the entry with the time of the call, whatever
\* savedAt the caller's result carried, so no stored entry has a later savedAt.
C13_SavedAtIsNow ==
    (last.op = "save" /\ last.ret) =>
        /\ \E i \in 1..Len(profiles) :
              /\ profiles[i].username = last.pd.username
              /\ profiles[i].final_score = last.pd.final_score
              /\ profiles[i].savedAt = last.at
        /\ \A i \in 1..Len(profiles) : profiles[i].savedAt <= last.at

\* C13 witness: a result carrying a savedAt of its own was saved after time
\* had passed, next to an older entry.
C13_Witness ==
    /\ last.op = "save"
    /\ last.ret
    /\ last.pd.savedAt # NoTime
    /\ last.at >= 1
    /\ Len(profiles) >= 2

\* ---- the views
Reverse(seq) == [i \in 1..Len(seq) |-> seq[Len(seq) + 1 - i]]
DistinctScores(seq) ==
    \A i, j \in 1..Len(seq) : i # j => seq[i].final_score # seq[j].final_score
IncreasingScores(seq) ==
    \A i \in 1..(Len(seq) - 1) : seq[i].final_score < seq[i + 1].final_score
\* how many of the first i profiles given have tier t
Matching(t, i) == Cardinality({ j \in 1..i : savedProfiles[j].tier = t })

\* C14: with the filter "all" the filtered list is the list given, element for
\* element; with a tier T it holds exactly the given elements of tier T, each
\* at the place its rank among them gives it, so in their original order.
C14_FilterByTier ==
    rendered.kind = "list" =>
        IF filter = "all"
        THEN rendered.filtered = savedProfiles
        ELSE /\ Len(rendered.filtered) = Matching(filter, Len(savedProfiles))
             /\ \A i \in 1..Len(savedProfiles) :
                   savedProfiles[i].tier = filter =>
                       rendered.filtered[Matching(filter, i)] = savedProfiles[i]

\* a tier is chosen, two profiles pass, and one that does not pass comes first
C14_Witness ==
    /\ rendered.kind = "list"
    /\ filter \in Tiers
    /\ Len(rendered.filtered) = 2
    /\ Len(savedProfiles) = 3
    /\ savedProfiles[1].tier # filter

\* C15: when the scores shown are pairwise distinct, switching the order of a
\* sort by score shows the same profiles exactly reversed, and the ascending
\* list is in increasing final-score order.
C15_ScoreOrdersReversed ==
    [][ ( /\ activeTab = "saved" /\ activeTab' = "saved"
          /\ sortBy = "score" /\ sortBy' = "score"
          /\ filter' = filter
          /\ sortOrder' # sortOrder
          /\ DistinctScores(rendered.shown) )
        => /\ rendered'.shown = Reverse(rendered.shown)
           /\ sortOrder' = "asc" => IncreasingScores(rendered'.shown)
           /\ sortOrder = "asc" => IncreasingScores(rendered.shown) ]_vars

\* three distinct scores, sorted by score, the order switched to ascending
C15_Witness ==
    /\ rendered.kind = "list"
    /\ sortBy = "score"
    /\ sortOrder = "asc"
    /\ Len(rendered.shown) = 3
    /\ DistinctScores(rendered.shown)

\* C16: no render of either view changes the list it was given.
C16_InputNotMutated == [][savedProfiles' = savedProfiles]_vars

\* the whole list is shown, in another order than it was given in
C16_Witness ==
    /\ rendered.kind = "list"
    /\ filter = "all"
    /\ sortBy = "score"
    /\ rendered.shown # savedProfiles
    /\ rendered.shown # Reverse(savedProfiles)

\* C17: the leaderboard of two or more profiles is a permutation of the list
\* given, in non-increasing final-score order, profiles of equal score in the
\* order they were given in.
C17_RankStableDescending ==
    rendered.kind = "compare" =>
        \E p \in Permutations(1..Len(savedProfiles)) :
            /\ rendered.ranked = [i \in 1..Len(savedProfiles) |-> savedProfiles[p[i]]]
            /\ \A i \in 1..(Len(savedProfiles) - 1) :
                  /\ rendered.ranked[i].final_score >= rendered.ranked[i + 1].final_score
                  /\ rendered.ranked[i].final_score = rendered.ranked[i + 1].final_score
                        => p[i] < p[i + 1]

\* a tie, around a higher score that the ranking moves to the front
C17_Witness ==
    /\ rendered.kind = "compare"
    /\ Len(savedProfiles) = 3
    /\ savedProfiles[1].final_score = savedProfiles[3].final_score
    /\ savedProfiles[2].final_score > savedProfiles[1].final_score

\* C18: given fewer than two profiles the comparison shows its "need at least
\* 2 profiles" state and computes neither a leaderboard nor a bar; given two
\* or more it does not show that state.
C18_RefusesFewerThanTwo ==
    activeTab = "compare" =>
        /\ rendered.kind \in {"needTwo", "compare"}
        /\ rendered.kind = "needTwo" <=> Len(savedProfiles) < 2
        /\ rendered.kind = "needTwo" => rendered.ranked = <<>> /\ rendered.bars = <<>>

C18_Witness ==
    /\ activeTab = "compare"
    /\ Len(savedProfiles) = 1
    /\ rendered.kind = "needTwo"

\* C19: each bar chart holds the metric of every profile in the order the
\* profiles were given in, its max is the greatest of them, some bar is bold
\* and every bold bar carries the max.
C19_BarsInInputOrderMaxBold ==
    rendered.kind = "compare" =>
        \A m \in Metrics :
            LET bar == rendered.bars[m]
                n == Len(savedProfiles)
            IN  /\ bar.values = [i \in 1..n |-> savedProfiles[i][m]]
                /\ \A i \in 1..n : bar.values[i] <= bar.max
                /\ \E i \in 1..n : bar.bold[i]
                /\ \A i \in 1..n : bar.bold[i] <=> bar.values[i] = bar.max

\* the ranked order differs from the given one in the metric, and one bar is
\* not bold
C19_Witness ==
    /\ rendered.kind = "compare"
    /\ \E i \in 1..Len(savedProfiles) :
          rendered.ranked[i].contribution_score # savedProfiles[i].contribution_score
    /\ \E i \in 1..Len(savedProfiles) : ~rendered.bars["contribution_score"].bold[i]

\* ---- the api
\* C20: a call answered with an unsuccessful status rejects with an error that
\* carries that status and a message; a call that got no answer rejects with
\* an error of another kind, one without a status; a call answered
\* successfully resolves to the parsed body.
C20_FailureKinds ==
    request.state = "settled" =>
        LET f == request.fetched
            o == request.outcome
        IN  /\ (f.kind = "response" /\ ~ok(f)) =>
                  /\ o.settled = "rejected"
                  /\ o.error.status = f.status
                  /\ o.error.message # ""
            /\ f.kind = "rejected" =>
                  /\ o.settled = "rejected"
                  /\ o.error.status = NoStatus
            /\ (f.kind = "response" /\ ok(f) /\ f.body.kind = "json") =>
                  /\ o.settled = "resolved"
                  /\ o.value = f.body.value

\* ---- the App
Entries(store) == { List(store)[i] : i \in 1..Len(List(store)) }

\* C21: when a search succeeds and its save gets through, the record is in the
\* store and the list then read from the store is the one that holds it; a
\* search that fails leaves the store as it was; and no entry ever comes into
\* the store but as the record of a search that succeeded in that very step.
C21_WrittenThroughThenRefreshed ==
    /\ [](handler.op = "searchDone" /\ handler.ret =>
            /\ MakeSaved(handler.pd, now) \in Entries(localStorage)
            /\ ~handler.readFails =>
                  /\ savedProfiles.isArray
                  /\ savedProfiles.items = List(localStorage))
    /\ [][ /\ handler'.op = "searchFailed" => localStorage' = localStorage
           /\ \A e \in Entries(localStorage') :
                 \/ e \in Entries(localStorage)
                 \/ /\ handler'.op = "searchDone"
                    /\ e = MakeSaved(handler'.pd, now) ]_vars

\* a second developer rated and saved, the list read back
C21_Witness ==
    /\ handler.op = "searchDone"
    /\ handler.ret
    /\ ~handler.readFails
    /\ Len(savedProfiles.items) = 2

\* C22: a search that fails shows the one message; loading the saved profiles
\* and the save after a search never set the message, and no render throws.
C22_OnlySearchFailuresSurface ==
    /\ handler.op = "searchFailed" => error = ErrorMessage
    /\ handler.op \in {"mount", "searchDone"} => error = NullError
    /\ ~crashed

\* C23: a request that settles after the user chose something newer to show
\* leaves the data shown as it is.
C23_LateResponseIgnored ==
    [][ (handler'.op \in {"searchDone", "searchFailed"} /\ handler'.superseded)
            => data' = data ]_vars

\* C24: never more than one request in flight.
C24_OneRequestInFlight == Len(pending) <= 1

\* a saved profile selected while a request is in flight: the form is shown
\* again, still loading
C24_Witness ==
    /\ Len(pending) = 1
    /\ handler.op = "select"
    /\ activeTab = "search"
    /\ loading

\* C25: on the Compare tab the saved-profile list has two entries or more.
C25_CompareNeedsTwo ==
    activeTab = "compare" => savedProfiles.isArray /\ Len(savedProfiles.items) >= 2

\* C26: after a search that succeeded, a removal or a clear, savedProfiles is
\* what getSavedProfiles returns on the store as it then is.
C26_ViewIsStoreSnapshot ==
    /\ handler.op \in {"searchDone", "remove"} =>
          savedProfiles = getSavedProfiles(localStorage, handler.readFails)
    /\ handler.op = "clear" => savedProfiles = getSavedProfiles(localStorage, FALSE)

\* C27: loading is set exactly while a request is in flight; a request that
\* settles clears it, setting the data and not the message when it succeeded
\* and the message and not the data when it failed; and, every request
\* settling in the end, loading is cleared in the end (or App has crashed).
C27_LoadingWhileInFlight ==
    /\ [](loading <=> pending # <<>>)
    /\ [][ /\ handler'.op = "searchDone" =>
                /\ data' = Shown(handler'.pd)
                /\ error' = error
                /\ ~loading'
           /\ handler'.op = "searchFailed" =>
                /\ error' = ErrorMessage
                /\ data' = data
                /\ ~loading' ]_vars
    /\ (loading ~> (~loading \/ crashed))

\* a search failed and is over
C27_Witness ==
    /\ handler.op = "searchFailed"
    /\ ~loading
    /\ pending = <<>>
    /\ error = ErrorMessage
    /\ data.isNull

\* C28: whenever a rating is shown no message is.
C28_DataExcludesError == ~data.isNull => error = NullError

\* ---- the search form
\* C29: every call of onSearch passes a username that is not empty and is the
\* text typed, without its first character when that is '@'.
C29_NeverSearchesEmpty ==
    searched.called =>
        /\ searched.username # <<>>
        /\ \/ /\ searched.input[1] = "@"
              /\ searched.username = Tail(searched.input)
           \/ /\ searched.input[1] # "@"
              /\ searched.username = searched.input

====
